---- MODULE Spec2Model ----
(***************************************************************************)
(* The hierarchy-scoped visibility engine of the task automation backend   *)
(* (src/main.py): the users and tasks tables, the write handlers that      *)
(* change them and the read helpers that resolve managers, subordinates    *)
(* and view scopes.                                                        *)
(*                                                                         *)
(* A table is the set of its rows.  A row keeps the columns the handlers   *)
(* read: emp_id, emp_email, emp_designation, manager_id for a user and     *)
(* id, task_assigned_to, task_duration for a task; the remaining columns   *)
(* (names, phone, dates, notes ...) are copied by the handlers and never   *)
(* read, and the integer primary key of users is never read either.        *)
(* Python's None is the value None below; a string is itself.              *)
(*                                                                         *)
(* A handler is an operator from the tables and the request to the         *)
(* response and the tables it leaves; an action applies it to a request    *)
(* drawn from the bounded sets below.  The task handlers stand behind the  *)
(* verify_token dependency: an action of theirs resolves it first and runs *)
(* the handler only when it returns a user.  get_tasks and the task        *)
(* handlers are also applied, as functions, to the tables of TaskTables.   *)
(* Spec runs the user handlers, the import script and the schema reset,    *)
(* SpecApi the two JSON user handlers, SpecTasks the writers of Spec and   *)
(* the task requests.  In these a request runs from its first query to its *)
(* commit in one step.  SpecConc interleaves the user handlers of          *)
(* concurrent requests statement by statement: inflight holds where each   *)
(* request stands and what its session holds.                              *)
(***************************************************************************)
EXTENDS Naturals, Sequences, FiniteSets, TLC

VARIABLES users, tasks, inflight

vars == <<users, tasks, inflight>>

\* Python's None (an absent JSON field, a NULL column, a missing CSV column).
None == "<None>"

\* ---------------------------------------------------------------- bounds
\* Rows the users table may hold in the user-only specification.
MaxUsers == 3
\* Data rows of one uploaded users CSV.
MaxRows == 2
\* Rows the users table may hold in the specification with tasks.
MaxUsersT == 2
\* Rows the tasks table may hold.
MaxTasks == 2
\* Data rows of one uploaded tasks CSV.
MaxTaskRows == 2
\* Requests the server handles at one time (threads of the worker pool).
MaxInflight == 2

\* Employee ids the requests draw from; "" is the empty string, which the
\* request schema (emp_id: str) accepts.
Ids == {"", "a", "b"}
Emails == {"x", "y", "z"}
\* absent (rank 0), "L1" (rank 2), "cto" (rank 5 after upper-casing)
Designations == {None, "L1", "cto"}
\* Task ids: supplied by the caller or drawn by secrets.token_hex(8).
TaskIds == {"t1", "t2"}
\* task_duration values the task requests carry.
Durations == {"0", "1"}

\* ------------------------------------------------------------ rank table
\* Python truthiness of an Optional[str]: None and "" are falsy.
Truthy(s) == s # None /\ s # ""

\* str.upper() on the designation labels: every key of the rank table and
\* the unknown label "INTERN", each in upper case, in lower case and
\* capitalised.  An upper-case label and "" are their own upper case.
UpperCased ==
    {"SE1", "SE2", "SSE", "TL", "L1", "L2", "EM", "CTO", "ADMIN", "SUPERADMIN",
     "OWNER", "INTERN", ""}

upper(s) ==
    CASE s \in UpperCased -> s
      [] s \in {"se1", "Se1"} -> "SE1"
      [] s \in {"se2", "Se2"} -> "SE2"
      [] s \in {"sse", "Sse"} -> "SSE"
      [] s \in {"tl", "Tl"} -> "TL"
      [] s \in {"l1"} -> "L1"
      [] s \in {"l2"} -> "L2"
      [] s \in {"em", "Em"} -> "EM"
      [] s \in {"cto", "Cto"} -> "CTO"
      [] s \in {"admin", "Admin"} -> "ADMIN"
      [] s \in {"superadmin", "Superadmin"} -> "SUPERADMIN"
      [] s \in {"owner", "Owner"} -> "OWNER"
      [] s \in {"intern", "Intern"} -> "INTERN"

\* The labels upper is defined on.
Labels ==
    UpperCased \cup
    {"se1", "Se1", "se2", "Se2", "sse", "Sse", "tl", "Tl", "l1", "l2", "em", "Em",
     "cto", "Cto", "admin", "Admin", "superadmin", "Superadmin", "owner", "Owner",
     "intern", "Intern"}

HIERARCHY_RANKS ==
    [d \in {"SE1", "SE2", "SSE", "TL", "L1", "L2", "EM", "CTO", "ADMIN",
            "SUPERADMIN", "OWNER"} |->
        CASE d \in {"SE1", "SE2", "SSE", "TL"} -> 1
          [] d = "L1" -> 2
          [] d = "L2" -> 3
          [] d = "EM" -> 4
          [] d \in {"CTO", "ADMIN"} -> 5
          [] d = "SUPERADMIN" -> 6
          [] d = "OWNER" -> 7]

get_rank(designation) ==
    IF ~Truthy(designation) THEN 0
    ELSE IF upper(designation) \in DOMAIN HIERARCHY_RANKS
         THEN HIERARCHY_RANKS[upper(designation)]
         ELSE 0

\* ------------------------------------------------------------ the queries
\* db.query(UserModel).filter(UserModel.emp_id == emp_id): emp_id is unique,
\* so .first() is the one row, or None.
UsersById(us, emp_id) == {u \in us : u.emp_id = emp_id}

\* .first() found a row (the handlers' "if not user" is its negation).
user_exists(us, emp_id) == UsersById(us, emp_id) # {}

\* The row .first() returns when there is one.
find_user(us, emp_id) == CHOOSE u \in UsersById(us, emp_id) : TRUE

\* The outcome of validate_manager_hierarchy: "ok" for return True, or the
\* HTTPException it raises.
validate_manager_hierarchy(us, manager_id, employee_designation, employee_id) ==
    IF ~user_exists(us, manager_id) THEN "ManagerNotFound"
    ELSE LET manager == find_user(us, manager_id)
             manager_rank == get_rank(manager.emp_designation)
             employee_rank == get_rank(employee_designation)
         IN IF Truthy(employee_id) /\ manager_id = employee_id
            THEN IF employee_rank >= 5 THEN "ok"
                 ELSE "SelfManagementNotAllowed"
            ELSE IF manager_rank <= employee_rank
                 THEN "InsufficientManagerRank"
                 ELSE "ok"

\* ------------------------------------------------- get_all_subordinates
\* db.query(UserModel).filter(UserModel.manager_id == manager_emp_id).all()
direct_reports(us, manager_emp_id) == {u \in us : u.manager_id = manager_emp_id}

\* The recursion of get_all_subordinates, `depth` frames below the first call.
\* Every frame below the first is entered for the emp_id of a stored row, so
\* a frame deeper than the table has rows re-enters an emp_id that is already
\* on the stack: the recursion never returns (Python raises RecursionError).
\* returned: the call returns.  subordinates: the set it returns; when it
\* does not return, what its loop can have added to the set by then (every
\* direct report, and what the recursive calls that return gave back).
RECURSIVE subordinates_from(_, _, _)
subordinates_from(us, manager_emp_id, depth) ==
    IF depth > Cardinality(us)
    THEN [returned |-> FALSE, subordinates |-> {}]
    ELSE LET reports == direct_reports(us, manager_emp_id)
             below == [user \in reports |-> subordinates_from(us, user.emp_id, depth + 1)]
         IN [returned |-> \A user \in reports : below[user].returned,
             subordinates |->
                 {user.emp_id : user \in reports}
                 \cup UNION {below[user].subordinates :
                                user \in {r \in reports : below[r].returned}}]

\* A resolver that stops at the direct reports.
get_all_subordinates_direct(us, manager_emp_id) ==
    [returned |-> TRUE,
     subordinates |-> {user.emp_id : user \in direct_reports(us, manager_emp_id)}]

get_all_subordinates(us, manager_emp_id) == subordinates_from(us, manager_emp_id, 0)

\* ---------------------------------------------------- get_user_view_scope
\* A calculator whose threshold is off by one (rank > 2).
get_user_view_scope_above2(us, emp_id) ==
    IF ~user_exists(us, emp_id) THEN [returned |-> TRUE, scope |-> {}]
    ELSE IF get_rank(find_user(us, emp_id).emp_designation) > 2
    THEN LET subs == get_all_subordinates(us, emp_id)
         IN [returned |-> subs.returned,
             scope |-> IF subs.returned THEN {emp_id} \cup subs.subordinates ELSE {}]
    ELSE [returned |-> TRUE, scope |-> {emp_id}]

\* returned: the call returns; scope: the set it returns.
get_user_view_scope(us, emp_id) ==
    IF ~user_exists(us, emp_id) THEN [returned |-> TRUE, scope |-> {}]
    ELSE LET user == find_user(us, emp_id)
             rank == get_rank(user.emp_designation)
         IN IF rank >= 2
            THEN LET subs == get_all_subordinates(us, emp_id)
                 IN [returned |-> subs.returned,
                     scope |-> IF subs.returned THEN {emp_id} \cup subs.subordinates
                               ELSE {}]
            ELSE [returned |-> TRUE, scope |-> {emp_id}]

\* -------------------------------------------------------------- get_users
\* The response of GET /user: status 500 when the recursion does not return.
get_users(us, user_id) ==
    IF Truthy(user_id)
    THEN LET subs == get_all_subordinates(us, user_id)
         IN IF subs.returned
            THEN [status |-> 200, data |-> {u \in us : u.emp_id \in subs.subordinates}]
            ELSE [status |-> 500, data |-> {}]
    ELSE [status |-> 200, data |-> us]

\* -------------------------------------------------------------- get_tasks
\* A listing without the security check of step 3.
get_tasks_unchecked(us, ts, current_user, user_id) ==
    LET target_root_id == IF Truthy(user_id) THEN user_id ELSE current_user.emp_id
        display_scope == get_user_view_scope(us, target_root_id)
    IN IF ~get_user_view_scope(us, current_user.emp_id).returned \/ ~display_scope.returned
       THEN [status |-> 500, data |-> {}]
       ELSE [status |-> 200,
             data |-> {t \in ts : t.task_assigned_to \in display_scope.scope}]

\* A listing that filters by the caller's scope instead of the target's.
get_tasks_caller_scope(us, ts, current_user, user_id) ==
    LET current_user_scope == get_user_view_scope(us, current_user.emp_id)
        target_root_id == IF Truthy(user_id) THEN user_id ELSE current_user.emp_id
    IN IF ~current_user_scope.returned
       THEN [status |-> 500, data |-> {}]
       ELSE IF target_root_id \notin current_user_scope.scope
       THEN [status |-> 200, data |-> {}]
       ELSE [status |-> 200,
             data |-> {t \in ts : t.task_assigned_to \in current_user_scope.scope}]

\* The response of GET /tasks for current_user, the users row the
\* verify_token dependency resolved: status 500 when a scope does not return.
get_tasks(us, ts, current_user, user_id) ==
    LET current_user_scope == get_user_view_scope(us, current_user.emp_id)
        target_root_id == IF Truthy(user_id) THEN user_id ELSE current_user.emp_id
    IN IF ~current_user_scope.returned
       THEN [status |-> 500, data |-> {}]
       ELSE IF target_root_id \notin current_user_scope.scope
       THEN [status |-> 200, data |-> {}]
       ELSE LET display_scope == get_user_view_scope(us, target_root_id)
            IN IF ~display_scope.returned
               THEN [status |-> 500, data |-> {}]
               ELSE [status |-> 200,
                     data |-> {t \in ts : t.task_assigned_to \in display_scope.scope}]

\* ---------------------------------------------------------- create_user
UserRow(emp_id, emp_email, emp_designation, manager_id) ==
    [emp_id |-> emp_id, emp_email |-> emp_email,
     emp_designation |-> emp_designation, manager_id |-> manager_id]

\* A handler that does not call the hierarchy validator.
create_user_unvalidated(us, user) ==
    IF \E e \in us : e.emp_id = user.emp_id
    THEN [status |-> 400, detail |-> "User with emp_id already exists", users |-> us]
    ELSE IF \E e \in us : e.emp_email = user.emp_email
    THEN [status |-> 400, detail |-> "User with emp_email already exists", users |-> us]
    ELSE [status |-> 201, detail |-> "User created successfully",
          users |-> us \cup {UserRow(user.emp_id, user.emp_email,
                               user.emp_designation, user.manager_id)}]

\* The response of POST /user and the users table it leaves.
create_user(us, user) ==
    IF \E e \in us : e.emp_id = user.emp_id
    THEN [status |-> 400, detail |-> "User with emp_id already exists", users |-> us]
    ELSE IF \E e \in us : e.emp_email = user.emp_email
    THEN [status |-> 400, detail |-> "User with emp_email already exists", users |-> us]
    ELSE LET v == IF Truthy(user.manager_id)
                  THEN validate_manager_hierarchy(us, user.manager_id,
                           user.emp_designation, user.emp_id)
                  ELSE "ok"
         IN IF v # "ok"
            THEN [status |-> 400, detail |-> v, users |-> us]
            ELSE [status |-> 201, detail |-> "User created successfully",
                  users |-> us \cup {UserRow(user.emp_id, user.emp_email,
                                       user.emp_designation, user.manager_id)}]

UserCreates ==
    {UserRow(i, e, d, m) : i \in Ids, e \in Emails, d \in Designations,
                           m \in Ids \cup {None}}

CreateUser(cap) ==
    /\ Cardinality(users) < cap
    /\ \E user \in UserCreates : users' = create_user(users, user).users
    /\ UNCHANGED <<tasks, inflight>>

\* ---------------------------------------------------------- update_user
\* The UserUpdate body: every field is optional (None: not supplied).
UserUpdates ==
    {UserRow(i, e, d, m) : i \in Ids \cup {None}, e \in Emails \cup {None},
                           d \in Designations, m \in Ids \cup {None}}

\* "x if x is not None else the stored value": the field assignments.
Provided(new, old) == IF new # None THEN new ELSE old

\* "a or b" on two Optional[str].
Or(a, b) == IF Truthy(a) THEN a ELSE b

\* The response of PUT /user/{emp_id} and the users table it leaves.
update_user(us, emp_id, user_update) ==
    IF ~user_exists(us, emp_id)
    THEN [status |-> 404, detail |-> "User not found", users |-> us]
    ELSE
    LET db_user == find_user(us, emp_id) IN
    IF /\ Truthy(user_update.emp_id)
       /\ user_update.emp_id # emp_id
       /\ user_exists(us, user_update.emp_id)
    THEN [status |-> 400, detail |-> "New emp_id already exists", users |-> us]
    ELSE IF /\ Truthy(user_update.emp_email)
            /\ user_update.emp_email # db_user.emp_email
            /\ \E e \in us : e.emp_email = user_update.emp_email
    THEN [status |-> 400, detail |-> "New emp_email already exists", users |-> us]
    ELSE
    LET v == IF /\ Truthy(user_update.manager_id)
                /\ user_update.manager_id # db_user.manager_id
             THEN validate_manager_hierarchy(us, user_update.manager_id,
                      Or(user_update.emp_designation, db_user.emp_designation),
                      db_user.emp_id)
             ELSE "ok"
        updated == UserRow(Provided(user_update.emp_id, db_user.emp_id),
                           Provided(user_update.emp_email, db_user.emp_email),
                           Provided(user_update.emp_designation, db_user.emp_designation),
                           Provided(user_update.manager_id, db_user.manager_id))
        others == us \ {db_user}
    IN IF v # "ok"
       THEN [status |-> 400, detail |-> v, users |-> us]
       \* db.commit(): the unique indexes on emp_id and emp_email reject the
       \* UPDATE, the handler rolls back.
       ELSE IF \E o \in others : o.emp_id = updated.emp_id \/ o.emp_email = updated.emp_email
       THEN [status |-> 400, detail |-> "Database update failed", users |-> us]
       ELSE [status |-> 200, detail |-> "User updated successfully",
             users |-> others \cup {updated}]

\* emp_id is a path segment of the URL, which cannot be empty.
UpdateUser ==
    /\ \E emp_id \in Ids \ {""}, user_update \in UserUpdates :
          users' = update_user(users, emp_id, user_update).users
    /\ UNCHANGED <<tasks, inflight>>

\* --------------------------------------------------------- upload_users
\* A parsed data row of the CSV: the cells the handler reads.
CsvRow(emp_name, emp_id, emp_email, emp_designation, manager_id) ==
    [emp_name |-> emp_name, emp_id |-> emp_id, emp_email |-> emp_email,
     emp_designation |-> emp_designation, manager_id |-> manager_id]

\* The columns of the users row made of a CSV row (emp_name is stored and
\* never read again).
StoredRow(row) ==
    UserRow(row.emp_id, row.emp_email, row.emp_designation, row.manager_id)

\* The data rows of the files.  A cell is a string ("" when empty).
\* emp_designation or manager_id is None when the file has no such column;
\* a row cut short has None in every column past its last cell
\* (csv.DictReader fills the missing cells with None): emp_name alone,
\* emp_email alone, or both.
UploadRows ==
    {CsvRow("n", i, e, d, m) : i \in Ids, e \in Emails, d \in Designations,
                               m \in Ids \cup {None}}
    \cup {CsvRow(None, i, e, None, None) : i \in Ids, e \in Emails \cup {None}}
    \cup {CsvRow("n", i, None, None, None) : i \in Ids}

\* The rows the loop adds to the session: those that match no committed row
\* on emp_id or emp_email (the session does not autoflush, so a row added
\* earlier in the same file is not seen by the query).
AddedRows(us, rows) ==
    SelectSeq(rows, LAMBDA r : ~\E e \in us : e.emp_id = r.emp_id \/ e.emp_email = r.emp_email)

\* A row the NOT NULL columns of users refuse (emp_name, emp_id, emp_email
\* are nullable=False).
null_violation(row) ==
    row.emp_name = None \/ row.emp_id = None \/ row.emp_email = None

\* db.commit() of the pending rows fails: two of them share an emp_id or an
\* emp_email (unique indexes), or one has no emp_name, no emp_id or no
\* emp_email.
CommitFails(added) ==
    \/ \E i, j \in 1..Len(added) :
          /\ i < j
          /\ \/ added[i].emp_id = added[j].emp_id
             \/ added[i].emp_email = added[j].emp_email
    \/ \E i \in 1..Len(added) : null_violation(added[i])

\* The response of POST /users/upload and the users table it leaves.
\* has_required_cols: the header holds emp_id, emp_name and emp_email.
upload_users(us, has_required_cols, rows) ==
    IF ~has_required_cols
    THEN [status |-> 200, added |-> 0, skipped |-> Len(rows), users |-> us]
    ELSE
    LET added == AddedRows(us, rows)
    IN \* The exception of db.commit() is not caught: nothing is committed.
       IF CommitFails(added)
       THEN [status |-> 500, added |-> 0, skipped |-> 0, users |-> us]
       ELSE [status |-> 200, added |-> Len(added), skipped |-> Len(rows) - Len(added),
             users |-> us \cup {StoredRow(added[i]) : i \in 1..Len(added)}]

\* The file either lacks a required column (every row is skipped, whatever it
\* holds) or has them all.
UploadUsers(cap) ==
    /\ \E n \in 0..MaxRows :
          /\ Cardinality(users) + n <= cap
          /\ \/ LET row == CHOOSE r \in UploadRows : TRUE
                IN users' = upload_users(users, FALSE, [i \in 1..n |-> row]).users
             \/ \E rows \in [1..n -> UploadRows] :
                   users' = upload_users(users, TRUE, rows).users
    /\ UNCHANGED <<tasks, inflight>>

\* --------------------------------------------------------- import_users
\* The rows of the file import_users reads: it never reads manager_id.
\* emp_name is None in a row cut short and in a file without the column.
ImportRows == {row \in UploadRows : row.manager_id = None}

\* The users table import_users (import_users_from_csv.py) leaves: the rows
\* that match no committed row are stored without manager; an exception at
\* db.commit() is caught and rolled back.  file_exists: csv_path is a file.
import_users(us, file_exists, rows) ==
    IF ~file_exists THEN us
    ELSE LET added == AddedRows(us, rows)
         IN IF CommitFails(added) THEN us
            ELSE us \cup {UserRow(added[i].emp_id, added[i].emp_email,
                                  added[i].emp_designation, None) :
                             i \in 1..Len(added)}

ImportUsers(cap) ==
    /\ \E n \in 0..MaxRows :
          /\ Cardinality(users) + n <= cap
          /\ \/ users' = import_users(users, FALSE, <<>>)
             \/ \E rows \in [1..n -> ImportRows] :
                   users' = import_users(users, TRUE, rows)
    /\ UNCHANGED <<tasks, inflight>>

\* ------------------------------------------------------------ fix_schema
\* fix_schema.py: Base.metadata.drop_all, then create_all.
FixSchema ==
    /\ users' = {}
    /\ tasks' = {}
    /\ UNCHANGED inflight

\* ------------------------------------------------------ token sessions
\* Authorization headers: absent, empty, a raw token and the token behind
\* the two prefixes verify_token knows.
Authorizations == {None, "", "tok", "Bearer tok", "Token tok"}

\* authorization.startswith(prefix) on those headers.
startswith(authorization, prefix) ==
    \/ prefix = "Bearer " /\ authorization = "Bearer tok"
    \/ prefix = "Token " /\ authorization = "Token tok"

\* authorization.replace("Bearer ", "") on those headers.
strip_bearer(authorization) ==
    IF authorization = "Bearer tok" THEN "tok" ELSE authorization

\* authorization.replace("Token ", "") on those headers.
strip_token(authorization) ==
    IF authorization = "Token tok" THEN "tok" ELSE authorization

\* db.query(UserModel).filter(UserModel.token == token).first(): the User
\* class maps no token column (only Foundation has one), so evaluating
\* UserModel.token raises AttributeError before any row is read, whatever
\* the table and the token are.
token_lookup(us, token) == [raised |-> "AttributeError", user |-> None]

\* The outcome of the verify_token dependency: 401 without a header, else the
\* failure of the lookup (an unhandled exception, answered 500).
verify_token(us, authorization) ==
    IF ~Truthy(authorization)
    THEN [status |-> 401, detail |-> "Missing Authorization Header"]
    ELSE LET token == IF startswith(authorization, "Bearer ")
                      THEN strip_bearer(authorization)
                      ELSE IF startswith(authorization, "Token ")
                      THEN strip_token(authorization)
                      ELSE authorization
             found == token_lookup(us, token)
         IN [status |-> 500, detail |-> found.raised]

\* The response of POST /login and the users table it leaves: user.token is
\* set on the loaded instance as a plain attribute, which db.commit() does
\* not write; generated is the token secrets.token_hex(16) draws.
login(us, emp_id, generated) ==
    IF ~user_exists(us, emp_id)
    THEN [status |-> 400, message |-> "User not found", token |-> None, users |-> us]
    ELSE [status |-> 200, message |-> "Login successful", token |-> generated,
          users |-> us]

\* The response of POST /logout and the users table it leaves: only the
\* "Bearer " prefix is removed before the lookup.
logout(us, authorization) ==
    IF ~Truthy(authorization)
    THEN [status |-> 401, message |-> "Missing Token", users |-> us]
    ELSE LET token == strip_bearer(authorization)
             found == token_lookup(us, token)
         IN [status |-> 500, message |-> found.raised, users |-> us]

\* ------------------------------------------ validate_assignee_eligibility
\* A checker whose threshold is off by one (rank > 4: an EM is assignable).
validate_assignee_eligibility_above4(user) ==
    IF get_rank(user.emp_designation) > 4 THEN "RankTooHighForAssignment" ELSE "ok"

validate_assignee_eligibility(user) ==
    IF get_rank(user.emp_designation) >= 4 THEN "RankTooHighForAssignment" ELSE "ok"

\* ----------------------------------------------------------- create_task
TaskRow(id, task_assigned_to, task_duration) ==
    [id |-> id, task_assigned_to |-> task_assigned_to, task_duration |-> task_duration]

\* The shared checks without the one on the duration.
check_task_any_duration(us, task) ==
    IF ~Truthy(task.task_assigned_to) THEN "Task must be assigned to a user"
    ELSE IF ~user_exists(us, task.task_assigned_to) THEN "Assigned user not found"
    ELSE validate_assignee_eligibility(find_user(us, task.task_assigned_to))

\* The checks create_task and update_task share (duration, assignee).
check_task(us, task) ==
    IF task.task_duration = "0" THEN "Task duration cannot be 0"
    ELSE IF ~Truthy(task.task_assigned_to) THEN "Task must be assigned to a user"
    ELSE IF ~user_exists(us, task.task_assigned_to) THEN "Assigned user not found"
    ELSE validate_assignee_eligibility(find_user(us, task.task_assigned_to))

\* The response of POST /tasks and the tasks table it leaves.  generated is
\* the id secrets.token_hex(8) draws when the request carries none.
create_task(us, ts, task, generated) ==
    LET id == IF Truthy(task.id) THEN task.id ELSE generated IN
    IF \E t \in ts : t.id = id
    THEN [status |-> 400, detail |-> "Task with this ID already exists", tasks |-> ts]
    ELSE LET v == check_task(us, task)
         IN IF v # "ok"
            THEN [status |-> 400, detail |-> v, tasks |-> ts]
            ELSE [status |-> 201, detail |-> "Task created successfully",
                  tasks |-> ts \cup {TaskRow(id, task.task_assigned_to, task.task_duration)}]

\* The TaskCreate bodies: id, task_assigned_to and task_duration are optional.
TaskCreates ==
    {TaskRow(i, a, d) : i \in TaskIds \cup {None}, a \in Ids \cup {None},
                        d \in Durations \cup {None}}

\* A POST /tasks request: the verify_token dependency is resolved first, and
\* the handler runs only when it returns a user.
CreateTask ==
    /\ \E authorization \in Authorizations :
          IF verify_token(users, authorization).status # 200
          THEN tasks' = tasks
          ELSE /\ Cardinality(tasks) < MaxTasks
               /\ \E task \in TaskCreates, generated \in TaskIds :
                     tasks' = create_task(users, tasks, task, generated).tasks
    /\ UNCHANGED <<users, inflight>>

\* ----------------------------------------------------------- update_task
\* The response of PUT /tasks/{task_id} and the tasks table it leaves.
update_task(us, ts, task_id, task) ==
    IF ~\E t \in ts : t.id = task_id
    THEN [status |-> 404, detail |-> "Task not found", tasks |-> ts]
    ELSE LET db_task == CHOOSE t \in ts : t.id = task_id
             v == check_task(us, task)
         IN IF v # "ok"
            THEN [status |-> 400, detail |-> v, tasks |-> ts]
            ELSE [status |-> 200, detail |-> "Task updated successfully",
                  tasks |-> (ts \ {db_task})
                            \cup {TaskRow(db_task.id, task.task_assigned_to,
                                          task.task_duration)}]

\* A PUT /tasks/{task_id} request, behind the verify_token dependency.
UpdateTask ==
    /\ \E authorization \in Authorizations :
          IF verify_token(users, authorization).status # 200
          THEN tasks' = tasks
          ELSE \E task_id \in TaskIds, task \in TaskCreates :
                  tasks' = update_task(users, tasks, task_id, task).tasks
    /\ UNCHANGED <<users, inflight>>

\* ---------------------------------------------------------- upload_tasks
\* A key the parsed row does not have: the file has no such column.
Missing == "<missing>"

\* A parsed data row of the CSV: task_name and task_assigned_to cells, the
\* id cell ("" when empty) and the task_duration cell: a string, None when
\* the row is cut short before it, Missing when the file has no such column.
TaskUploadRows ==
    {[task_name |-> n, id |-> i, task_assigned_to |-> a, task_duration |-> d] :
        n \in {"", "n"}, i \in TaskIds \cup {""}, a \in Ids,
        d \in Durations \cup {None, Missing}}

\* row.get("task_duration", "0"): the default stands in for a missing key
\* only; a key that holds None gives None.
row_duration(row) == IF row.task_duration = Missing THEN "0" ELSE row.task_duration

\* The first loop's verdict on one row.
check_upload_row(us, row) ==
    IF ~Truthy(row.task_name) THEN "task_name is required"
    ELSE IF ~Truthy(row.task_assigned_to) THEN "task_assigned_to is required"
    ELSE IF row_duration(row) = "0" THEN "task_duration cannot be 0"
    ELSE IF ~user_exists(us, row.task_assigned_to) THEN "Assigned user not found"
    ELSE validate_assignee_eligibility(find_user(us, row.task_assigned_to))

\* The response of POST /tasks/upload and the tasks table it leaves.
\* generated[i] is the id drawn for row i, whose id cell is empty.
upload_tasks(us, ts, rows, generated) ==
    IF \E i \in 1..Len(rows) : check_upload_row(us, rows[i]) # "ok"
    THEN [status |-> 400, detail |-> "row rejected", tasks |-> ts]
    ELSE
    LET validated == [i \in 1..Len(rows) |->
                         TaskRow(IF Truthy(rows[i].id) THEN rows[i].id ELSE generated[i],
                                 rows[i].task_assigned_to, row_duration(rows[i]))]
    IN IF \E i \in 1..Len(rows) : \E t \in ts : t.id = validated[i].id
       THEN [status |-> 400, detail |-> "Task ID already exists", tasks |-> ts]
       \* db.commit(): two pending rows with one primary key; the handler
       \* rolls back.
       ELSE IF \E i, j \in 1..Len(rows) : i < j /\ validated[i].id = validated[j].id
       THEN [status |-> 400, detail |-> "Database error", tasks |-> ts]
       ELSE [status |-> 200, detail |-> "Bulk upload successful",
             tasks |-> ts \cup {validated[i] : i \in 1..Len(rows)}]

\* A POST /tasks/upload request, behind the verify_token dependency.
UploadTasks ==
    /\ \E authorization \in Authorizations :
          IF verify_token(users, authorization).status # 200
          THEN tasks' = tasks
          ELSE \E n \in 0..MaxTaskRows :
                  /\ Cardinality(tasks) + n <= MaxTasks
                  /\ \E rows \in [1..n -> TaskUploadRows] :
                     \E generated \in [{i \in 1..n : ~Truthy(rows[i].id)} -> TaskIds] :
                        tasks' = upload_tasks(users, tasks, rows, generated).tasks
    /\ UNCHANGED <<users, inflight>>

\* ------------------------------------------------- concurrent requests
\* Every request has a session of its own (get_db) that neither autoflushes
\* nor holds a snapshot: each query reads the table as committed at that
\* moment, the writes stay pending in the session until db.commit(), and
\* other requests commit in between.  create_user and update_user run in
\* threads of the worker pool; upload_users is a coroutine, its loop runs
\* between the queries and commits of those threads and, with more than one
\* server process, of other uploads.  A step below is one statement sent to
\* the database with the Python code that follows it up to the next one.
\*
\* inflight[w] is the request of worker w: op the handler, pc the statement
\* it sends next, emp_id the path parameter of update_user, req the body of
\* the request (a column of an update is None when not supplied), file the
\* CSV rows the upload has still to look at, rows the rows added to the
\* session, loaded the attributes of db_user as update_user loaded them, and
\* target the committed row db_user stands for (the row with its primary
\* key).
Workers == 1..MaxInflight

NoRow == UserRow(None, None, None, None)

NoReq == CsvRow(None, None, None, None, None)

Tx(op, pc, emp_id, req, file, rows, loaded, target) ==
    [op |-> op, pc |-> pc, emp_id |-> emp_id, req |-> req, file |-> file,
     rows |-> rows, loaded |-> loaded, target |-> target]

Idle == Tx("idle", "", None, NoReq, <<>>, <<>>, NoRow, NoRow)

\* The attributes of db_user the assignments of update_user change: the
\* UPDATE sets a column only when its new value differs from the loaded one.
Changed(new, old) == IF new # None /\ new # old THEN new ELSE None

\* The unique indexes on users.emp_id and users.emp_email, without the email.
unique_violation_emp_id_only(us, row) ==
    \E o \in us : o.emp_id = row.emp_id

\* The unique indexes on users.emp_id and users.emp_email: the database
\* refuses a row that shares either value with another row.
unique_violation(us, row) ==
    \E o \in us : o.emp_id = row.emp_id \/ o.emp_email = row.emp_email

\* The requests of the concurrent specification: the columns the unique
\* indexes do not cover are left absent.
ConcIds == {"a", "b"}
ConcEmails == {"x", "y"}
\* UserCreate.emp_name is a required str.
ConcCreates == {CsvRow("n", i, e, None, None) : i \in ConcIds, e \in ConcEmails}
ConcUpdates ==
    {CsvRow(None, i, e, None, None) : i \in ConcIds \cup {None},
                                      e \in ConcEmails \cup {None}}
\* Full rows, and rows cut short before their emp_name cell.
ConcUploadRows ==
    {CsvRow(n, i, e, None, None) : n \in {"n", None}, i \in ConcIds, e \in ConcEmails}

\* create_user, first query (emp_id): 400 when a committed row has it.
BeginCreateUser(w) ==
    /\ inflight[w] = Idle
    /\ \E user \in ConcCreates :
          IF \E e \in users : e.emp_id = user.emp_id
          THEN UNCHANGED inflight
          ELSE inflight' = [inflight EXCEPT ![w] =
                               Tx("create", "emp_email", None, user, <<>>, <<>>,
                                  NoRow, NoRow)]
    /\ UNCHANGED <<users, tasks>>

\* create_user, second query (emp_email): 400 when a committed row has it;
\* else (no manager_id in these requests) db.add.
CreateCheckEmail(w) ==
    LET tx == inflight[w] IN
    /\ tx.op = "create" /\ tx.pc = "emp_email"
    /\ inflight' = [inflight EXCEPT ![w] =
          IF \E e \in users : e.emp_email = tx.req.emp_email
          THEN Idle
          ELSE [tx EXCEPT !.pc = "commit", !.rows = <<tx.req>>]]
    /\ UNCHANGED <<users, tasks>>

\* update_user, first query: db_user by the emp_id of the path, 404 when no
\* committed row has it.
BeginUpdateUser(w) ==
    /\ inflight[w] = Idle
    /\ \E emp_id \in ConcIds, user_update \in ConcUpdates :
          IF ~user_exists(users, emp_id)
          THEN UNCHANGED inflight
          ELSE LET db_user == find_user(users, emp_id)
               IN inflight' = [inflight EXCEPT ![w] =
                                  Tx("update", "emp_id", emp_id, user_update, <<>>, <<>>,
                                     db_user, db_user)]
    /\ UNCHANGED <<users, tasks>>

\* update_user, second query, sent when the request changes the emp_id of
\* the path: 400 when a committed row has the new emp_id (the row of db_user
\* itself included, once another request has renamed it).
UpdateCheckId(w) ==
    LET tx == inflight[w] IN
    /\ tx.op = "update" /\ tx.pc = "emp_id"
    /\ inflight' = [inflight EXCEPT ![w] =
          IF /\ Truthy(tx.req.emp_id)
             /\ tx.req.emp_id # tx.emp_id
             /\ \E e \in users : e.emp_id = tx.req.emp_id
          THEN Idle
          ELSE [tx EXCEPT !.pc = "emp_email"]]
    /\ UNCHANGED <<users, tasks>>

\* update_user, third query, sent when the request changes the emp_email
\* db_user was loaded with: 400 when a committed row has the new one; else
\* (no manager_id in these requests) the assignments.
UpdateCheckEmail(w) ==
    LET tx == inflight[w] IN
    /\ tx.op = "update" /\ tx.pc = "emp_email"
    /\ inflight' = [inflight EXCEPT ![w] =
          IF /\ Truthy(tx.req.emp_email)
             /\ tx.req.emp_email # tx.loaded.emp_email
             /\ \E e \in users : e.emp_email = tx.req.emp_email
          THEN Idle
          ELSE [tx EXCEPT !.pc = "commit"]]
    /\ UNCHANGED <<users, tasks>>

\* upload_users up to its loop: the file is read and parsed (its header
\* holds emp_id, emp_name and emp_email).
BeginUploadUsers(w) ==
    /\ inflight[w] = Idle
    /\ \E n \in 0..MaxRows : \E rows \in [1..n -> ConcUploadRows] :
          inflight' = [inflight EXCEPT ![w] =
                          Tx("upload", IF n = 0 THEN "commit" ELSE "row", None, NoReq,
                             rows, <<>>, NoRow, NoRow)]
    /\ UNCHANGED <<users, tasks>>

\* upload_users, one turn of the loop: the query for the next row of the
\* file; the row is skipped when a committed row has its emp_id or its
\* emp_email, else added to the session.
UploadCheckRow(w) ==
    LET tx == inflight[w]
        row == Head(tx.file)
    IN /\ tx.op = "upload" /\ tx.pc = "row"
       /\ inflight' = [inflight EXCEPT ![w] =
             [tx EXCEPT !.file = Tail(tx.file),
                        !.pc = IF Len(tx.file) = 1 THEN "commit" ELSE "row",
                        !.rows = IF Len(AddedRows(users, <<row>>)) = 0
                                 THEN tx.rows ELSE Append(tx.rows, row)]]
       /\ UNCHANGED <<users, tasks>>

\* The committed row with the columns the UPDATE sets.
Written(row, changes) ==
    UserRow(Provided(changes.emp_id, row.emp_id),
            Provided(changes.emp_email, row.emp_email),
            Provided(changes.emp_designation, row.emp_designation),
            Provided(changes.manager_id, row.manager_id))

\* The pending INSERTs fail: a row has a NULL in a NOT NULL column, or
\* shares its emp_id or emp_email with a committed row or with another
\* pending row.
insert_fails(us, rows) ==
    \E i \in 1..Len(rows) :
        \/ null_violation(rows[i])
        \/ unique_violation(us, rows[i])
        \/ unique_violation({rows[j] : j \in (1..Len(rows)) \ {i}}, rows[i])

\* db.commit() of worker w.  The INSERTs and the UPDATE are checked against
\* the table as committed by then; on a violation the commit raises, the
\* transaction is rolled back and the table stays.  The UPDATE sets the
\* columns whose assigned value differs from the loaded one and addresses
\* its row by primary key, so it follows the row through the updates
\* committed meanwhile: a request that holds the row sees it re-pointed.
Commit(w) ==
    LET tx == inflight[w] IN
    /\ tx.pc = "commit"
    /\ IF tx.op \in {"create", "upload"}
       THEN /\ users' = IF insert_fails(users, tx.rows)
                        THEN users
                        ELSE users \cup {StoredRow(tx.rows[i]) : i \in 1..Len(tx.rows)}
            /\ inflight' = [inflight EXCEPT ![w] = Idle]
       ELSE LET changes == UserRow(Changed(tx.req.emp_id, tx.loaded.emp_id),
                                   Changed(tx.req.emp_email, tx.loaded.emp_email),
                                   Changed(tx.req.emp_designation,
                                           tx.loaded.emp_designation),
                                   Changed(tx.req.manager_id, tx.loaded.manager_id))
                written == Written(tx.target, changes)
                ok == ~unique_violation(users \ {tx.target}, written)
            IN /\ users' = IF ok THEN (users \ {tx.target}) \cup {written} ELSE users
               /\ inflight' =
                     [v \in Workers |->
                         IF v = w THEN Idle
                         ELSE IF ok /\ inflight[v].op = "update"
                                    /\ inflight[v].target = tx.target
                         THEN [inflight[v] EXCEPT !.target = written]
                         ELSE inflight[v]]
    /\ UNCHANGED tasks

\* Empty tables.  Where a request runs in one step nothing is ever pending
\* and no worker is modelled.
Init ==
    /\ users = {}
    /\ tasks = {}
    /\ inflight = <<>>

\* Empty tables and an idle pool of workers.
InitConc ==
    /\ users = {}
    /\ tasks = {}
    /\ inflight = [w \in Workers |-> Idle]

\* One request at a time: the handlers run from their first query to their
\* commit with nothing in between.
Next ==
    \/ CreateUser(MaxUsers)
    \/ UpdateUser
    \/ UploadUsers(MaxUsers)
    \/ ImportUsers(MaxUsers)
    \/ FixSchema

\* The writers of the users table: the tasks table stays empty.
Spec == Init /\ [][Next]_vars

\* The writers of the users table and the task requests.
NextTasks ==
    \/ CreateUser(MaxUsersT)
    \/ UpdateUser
    \/ UploadUsers(MaxUsersT)
    \/ ImportUsers(MaxUsersT)
    \/ FixSchema
    \/ CreateTask
    \/ UpdateTask
    \/ UploadTasks

SpecTasks == Init /\ [][NextTasks]_vars

\* The two JSON user handlers alone (no bulk import).
NextApi ==
    \/ CreateUser(MaxUsers)
    \/ UpdateUser

SpecApi == Init /\ [][NextApi]_vars

\* The user handlers of concurrent requests, interleaved at their queries
\* and commits.
NextConc ==
    \E w \in Workers :
        \/ BeginCreateUser(w)
        \/ CreateCheckEmail(w)
        \/ BeginUpdateUser(w)
        \/ UpdateCheckId(w)
        \/ UpdateCheckEmail(w)
        \/ BeginUploadUsers(w)
        \/ UploadCheckRow(w)
        \/ Commit(w)

SpecConc == InitConc /\ [][NextConc]_vars

\* ======================================================== the properties
\* The employees whose manager chain, followed k steps or fewer, reaches x.
RECURSIVE ReportsWithin(_, _, _)
ReportsWithin(us, x, k) ==
    IF k = 0 THEN {}
    ELSE LET nearer == ReportsWithin(us, x, k - 1)
         IN {u.emp_id : u \in {w \in us : w.manager_id = x \/ w.manager_id \in nearer}}

\* The employees whose manager chain reaches x in one or more steps.
Reports(us, x) == ReportsWithin(us, x, Cardinality(us))

\* No employee is on its own manager chain.
CycleFree(us) == \A u \in us : u.emp_id \notin Reports(us, u.emp_id)

Rank(u) == get_rank(u.emp_designation)

\* C1: every employee with a non-empty manager_id that names an employee has
\* a manager of strictly higher rank, or is its own manager at rank >= 5.
C1_ManagerOutranks ==
    \A e \in users : \A m \in users :
        (Truthy(e.manager_id) /\ m.emp_id = e.manager_id)
        => \/ m.emp_id # e.emp_id /\ Rank(m) > Rank(e)
           \/ m.emp_id = e.emp_id /\ Rank(e) >= 5

\* C2: get_all_subordinates returns for every employee (stated for the
\* employees whose emp_id is not the empty string).
C2_SubordinatesReturn ==
    \A x \in users :
        Truthy(x.emp_id) => get_all_subordinates(users, x.emp_id).returned

\* C3: for existing employees A and B, validate_manager_hierarchy(B.emp_id,
\* A.emp_designation, A.emp_id) succeeds exactly when A is B at rank >= 5, or
\* A is not B and B outranks A.
C3_ValidateIff ==
    \A A \in users : \A B \in users :
        (validate_manager_hierarchy(users, B.emp_id, A.emp_designation, A.emp_id) = "ok")
        <=> \/ A.emp_id = B.emp_id /\ Rank(A) >= 5
            \/ A.emp_id # B.emp_id /\ Rank(B) > Rank(A)

\* The root of a scoped listing: the target id when one is given.
TargetRoot(current_user, user_id) ==
    IF Truthy(user_id) THEN user_id ELSE current_user.emp_id

TargetIds == Ids \cup {None}

\* The tasks tables get_tasks and the task handlers are applied to: up to
\* MaxTasks rows with ids of their own, each assigned to some emp_id.
TaskTables ==
    {ts \in SUBSET {TaskRow(i, a, "1") : i \in TaskIds, a \in Ids} :
        /\ Cardinality(ts) <= MaxTasks
        /\ \A t, o \in ts : t.id = o.id => t = o}

\* C4: when the caller's scope does not hold target_root, get_tasks answers
\* success with no task, whatever is stored.
C4_OutOfScopeIsEmpty ==
    \A current_user \in users : \A user_id \in TargetIds : \A ts \in TaskTables :
        LET scope == get_user_view_scope(users, current_user.emp_id) IN
        (scope.returned /\ TargetRoot(current_user, user_id) \notin scope.scope)
        => get_tasks(users, ts, current_user, user_id) = [status |-> 200, data |-> {}]

\* A caller, an existing target outside the caller's scope, and a tasks table
\* with a task assigned to that target.
C4_Witness ==
    \E current_user \in users : \E user_id \in Ids : \E ts \in TaskTables :
        /\ Truthy(user_id)
        /\ user_exists(users, user_id)
        /\ get_user_view_scope(users, current_user.emp_id).returned
        /\ user_id \notin get_user_view_scope(users, current_user.emp_id).scope
        /\ \E t \in ts : t.task_assigned_to = user_id
        /\ get_tasks(users, ts, current_user, user_id).data = {}

\* C5: when the caller's scope holds target_root, get_tasks returns exactly
\* the stored tasks assigned inside get_user_view_scope(target_root).
C5_InScopeIsExact ==
    \A current_user \in users : \A user_id \in TargetIds : \A ts \in TaskTables :
        LET scope == get_user_view_scope(users, current_user.emp_id)
            root == TargetRoot(current_user, user_id)
            got == get_tasks(users, ts, current_user, user_id)
        IN (scope.returned /\ root \in scope.scope)
           => /\ got.status = 200
              /\ get_user_view_scope(users, root).returned
              /\ got.data = {t \in ts :
                                t.task_assigned_to \in get_user_view_scope(users, root).scope}

\* A caller lists a subordinate: one task of the table is assigned inside the
\* subordinate's scope and is returned, another is assigned to the caller and
\* is not.
C5_Witness ==
    \E current_user \in users : \E user_id \in Ids : \E ts \in TaskTables :
        LET got == get_tasks(users, ts, current_user, user_id) IN
        /\ Truthy(user_id)
        /\ user_id # current_user.emp_id
        /\ get_user_view_scope(users, current_user.emp_id).returned
        /\ user_id \in get_user_view_scope(users, current_user.emp_id).scope
        /\ got.status = 200
        /\ \E t \in got.data : t.task_assigned_to = user_id
        /\ \E t \in ts \ got.data : t.task_assigned_to = current_user.emp_id

\* C6: the user listing follows the scoped-listing rule of the
\* task listing (empty outside the caller's scope, else the users inside
\* view_scope_of(target_root)).
C6_UsersScopedLikeTasks ==
    \A current_user \in users : \A user_id \in TargetIds :
        LET scope == get_user_view_scope(users, current_user.emp_id)
            root == TargetRoot(current_user, user_id)
        IN scope.returned
           => get_users(users, user_id).data =
                 IF root \notin scope.scope THEN {}
                 ELSE {u \in users : u.emp_id \in get_user_view_scope(users, root).scope}

\* C7: get_user_view_scope(viewer) is empty for an unknown viewer, {viewer}
\* below rank 2, and {viewer} with get_all_subordinates(viewer) from rank 2.
C7_ViewScope ==
    \A viewer \in Ids :
        LET got == get_user_view_scope(users, viewer)
            subs == get_all_subordinates(users, viewer)
        IN IF ~user_exists(users, viewer)
           THEN got.returned /\ got.scope = {}
           ELSE IF Rank(find_user(users, viewer)) < 2
           THEN got.returned /\ got.scope = {viewer}
           ELSE /\ got.returned = subs.returned
                /\ subs.returned => got.scope = {viewer} \cup subs.subordinates

\* A viewer below rank 2 that has direct reports and sees itself alone, and
\* a viewer of rank 2 or more whose scope holds a subordinate.
C7_Witness ==
    /\ \E v \in users : Rank(v) < 2 /\ direct_reports(users, v.emp_id) # {}
    /\ \E v \in users :
          /\ Rank(v) >= 2
          /\ get_user_view_scope(users, v.emp_id).returned
          /\ get_user_view_scope(users, v.emp_id).scope \ {v.emp_id} # {}

\* C8: on a cycle-free manager graph get_all_subordinates(x) returns, for
\* every identity x, exactly the employees whose manager chain reaches x.
C8_TransitiveClosure ==
    CycleFree(users)
    => \A x \in Ids :
          /\ get_all_subordinates(users, x).returned
          /\ get_all_subordinates(users, x).subordinates = Reports(users, x)

\* A cycle-free chain of three: an indirect report is in the result.
C8_Witness ==
    /\ CycleFree(users)
    /\ \E x \in Ids : \E u \in users :
          /\ user_exists(users, x)
          /\ u.manager_id # x
          /\ u.emp_id \in get_all_subordinates(users, x).subordinates

\* C9: no employee is in the set get_all_subordinates builds for it (stated
\* for the employees whose emp_id is not the empty string).
C9_NeverOwnSubordinate ==
    \A x \in users :
        Truthy(x.emp_id)
        => x.emp_id \notin get_all_subordinates(users, x.emp_id).subordinates

\* Every task request stops in verify_token, so the tasks table holds no row
\* in any state the handlers reach.
TasksNeverStored == tasks = {}

\* The designation labels the eligibility check is exercised on: every
\* spelling upper is defined on, and None.
CheckedDesignations == Labels \cup {None}

\* The labels of rank 4 and more, in every spelling.
IneligibleLabels ==
    {"EM", "em", "Em", "CTO", "cto", "Cto", "ADMIN", "admin", "Admin",
     "SUPERADMIN", "superadmin", "Superadmin", "OWNER", "owner", "Owner"}

\* The rows of a tasks CSV that carry a task_name and an id of their own.
NamedTaskRows == {row \in TaskUploadRows : Truthy(row.task_name) /\ Truthy(row.id)}

\* The stored assignee of a request fails the eligibility check.
AssigneeFails(us, emp_id) ==
    /\ user_exists(us, emp_id)
    /\ validate_assignee_eligibility(find_user(us, emp_id)) # "ok"

\* C11: validate_assignee_eligibility fails exactly for the designations of
\* rank >= 4 (EM, CTO, ADMIN, SUPERADMIN, OWNER in any case) and succeeds for
\* SE1, SE2, SSE, TL, L1, L2 and for unknown or absent designations; and
\* create_task, update_task and upload_tasks reject every request whose
\* stored assignee fails it, leaving the tasks table as it was.
C11_IneligibleRejected ==
    /\ \A d \in CheckedDesignations :
          (validate_assignee_eligibility([emp_designation |-> d]) # "ok")
          <=> d \in IneligibleLabels
    /\ \A ts \in TaskTables : \A task \in TaskCreates :
          AssigneeFails(users, task.task_assigned_to)
          => /\ \A generated \in TaskIds :
                   LET got == create_task(users, ts, task, generated)
                   IN got.status = 400 /\ got.tasks = ts
             /\ \A task_id \in TaskIds :
                   LET got == update_task(users, ts, task_id, task)
                   IN got.status \in {400, 404} /\ got.tasks = ts
    /\ \A row \in TaskUploadRows :
          AssigneeFails(users, row.task_assigned_to) => check_upload_row(users, row) # "ok"
    /\ \A ts \in TaskTables : \A n \in 0..MaxTaskRows : \A rows \in [1..n -> NamedTaskRows] :
          (\E i \in 1..n : AssigneeFails(users, rows[i].task_assigned_to))
          => LET got == upload_tasks(users, ts, rows, [i \in {} |-> "t1"])
             IN got.status = 400 /\ got.tasks = ts

\* A tasks table with a row, a stored CTO, and three requests that differ
\* from accepted ones in the assignee alone: each is turned down by the
\* eligibility check.
C11_Witness ==
    \E u \in users : \E ts \in TaskTables : \E t \in ts : \E id \in TaskIds :
        /\ Truthy(u.emp_id)
        /\ Rank(u) >= 4
        /\ ~\E o \in ts : o.id = id
        /\ create_task(users, ts, TaskRow(id, u.emp_id, "1"), id).detail
              = "RankTooHighForAssignment"
        /\ update_task(users, ts, t.id, TaskRow(None, u.emp_id, "1")).detail
              = "RankTooHighForAssignment"
        /\ check_upload_row(users, [task_name |-> "n", id |-> id,
                                    task_assigned_to |-> u.emp_id,
                                    task_duration |-> "1"])
              = "RankTooHighForAssignment"

\* C12: every non-empty manager_id stored on an employee is the emp_id of a
\* stored employee.
C12_ManagerExists ==
    \A e \in users : Truthy(e.manager_id) => user_exists(users, e.manager_id)

\* C13: create_user for a new employee (fresh emp_id and emp_email) of rank
\* >= 5 whose manager_id is its own emp_id succeeds and stores the employee
\* with that manager_id.
C13_SelfManagedCreate ==
    \A user \in UserCreates :
        (/\ Truthy(user.manager_id)
         /\ user.manager_id = user.emp_id
         /\ get_rank(user.emp_designation) >= 5
         /\ ~\E e \in users : e.emp_id = user.emp_id \/ e.emp_email = user.emp_email)
        => LET got == create_user(users, user)
           IN /\ got.status = 201
              /\ UserRow(user.emp_id, user.emp_email, user.emp_designation,
                         user.manager_id) \in got.users

\* C14: no two stored employees share an emp_id and no two share an
\* emp_email, whatever the interleaving of the concurrent requests.
C14_Unique ==
    \A e \in users : \A o \in users :
        (e.emp_id = o.emp_id \/ e.emp_email = o.emp_email) => e = o

\* A request passed its checks, another request has committed since, and
\* what the first holds for its commit now shares an emp_id or an emp_email
\* with a committed row: a pending INSERT, or an UPDATE of a row that is
\* still in the table.
C14_Witness ==
    /\ Cardinality(users) >= 1
    /\ \E w \in Workers :
          LET tx == inflight[w] IN
          /\ tx.pc = "commit"
          /\ \/ /\ tx.op \in {"create", "upload"}
                /\ \E i \in 1..Len(tx.rows) :
                      ~null_violation(tx.rows[i]) /\ unique_violation(users, tx.rows[i])
             \/ /\ tx.op = "update"
                /\ tx.target \in users
                /\ \E e \in users \ {tx.target} :
                      \/ Changed(tx.req.emp_id, tx.loaded.emp_id) = e.emp_id
                      \/ Changed(tx.req.emp_email, tx.loaded.emp_email) = e.emp_email

\* No row of the table has the duration "0".
NoZero(ts) == \A t \in ts : t.task_duration # "0"

\* C15: no stored task has task_duration "0": create_task, update_task and
\* upload_tasks leave a table without such a row without one; create_task
\* and update_task reject a request that supplies "0", upload_tasks rejects
\* a file with a row whose duration is "0" or that has no duration column,
\* and each rejection leaves the tasks table as it was.
C15_NoZeroDuration ==
    /\ NoZero(tasks)
    /\ \A ts \in TaskTables : \A task \in TaskCreates :
          /\ \A generated \in TaskIds :
                LET got == create_task(users, ts, task, generated)
                IN /\ NoZero(got.tasks)
                   /\ task.task_duration = "0" => got.status = 400 /\ got.tasks = ts
          /\ \A task_id \in TaskIds :
                LET got == update_task(users, ts, task_id, task)
                IN /\ NoZero(got.tasks)
                   /\ task.task_duration = "0"
                      => got.status \in {400, 404} /\ got.tasks = ts
    /\ \A row \in TaskUploadRows :
          row.task_duration \in {"0", Missing} => check_upload_row(users, row) # "ok"
    /\ \A ts \in TaskTables : \A n \in 0..MaxTaskRows : \A rows \in [1..n -> NamedTaskRows] :
          LET got == upload_tasks(users, ts, rows, [i \in {} |-> "t1"])
          IN /\ NoZero(got.tasks)
             /\ (\E i \in 1..n : rows[i].task_duration \in {"0", Missing})
                => got.status = 400 /\ got.tasks = ts

\* A tasks table with a row, and requests for an assignable employee: a
\* create and an update that supply "0" and an upload row of a file without
\* the column are turned down for their duration alone; the same create
\* with "1" is stored, and a row cut short before its duration cell is
\* stored with no duration.
C15_Witness ==
    \E u \in users : \E ts \in TaskTables : \E t \in ts : \E id \in TaskIds :
        /\ Truthy(u.emp_id)
        /\ Rank(u) < 4
        /\ ~\E o \in ts : o.id = id
        /\ create_task(users, ts, TaskRow(id, u.emp_id, "0"), id).detail
              = "Task duration cannot be 0"
        /\ create_task(users, ts, TaskRow(id, u.emp_id, "1"), id).status = 201
        /\ update_task(users, ts, t.id, TaskRow(None, u.emp_id, "0")).detail
              = "Task duration cannot be 0"
        /\ check_upload_row(users, [task_name |-> "n", id |-> id,
                                    task_assigned_to |-> u.emp_id,
                                    task_duration |-> Missing])
              = "task_duration cannot be 0"
        /\ upload_tasks(users, ts, <<[task_name |-> "n", id |-> id,
                                     task_assigned_to |-> u.emp_id,
                                     task_duration |-> None]>>, <<>>).tasks
              = ts \cup {TaskRow(id, u.emp_id, None)}

\* A create_user request fails a validation: its emp_id or emp_email is
\* taken, or it names a manager the hierarchy validator refuses.
CreateFails(us, user) ==
    \/ user_exists(us, user.emp_id)
    \/ \E e \in us : e.emp_email = user.emp_email
    \/ /\ Truthy(user.manager_id)
       /\ validate_manager_hierarchy(us, user.manager_id, user.emp_designation,
                                     user.emp_id) # "ok"

\* An update_user request fails a validation: the user is unknown, the new
\* emp_id or emp_email is taken by another row, or the new manager is one
\* the hierarchy validator refuses.
UpdateFails(us, emp_id, user_update) ==
    \/ ~user_exists(us, emp_id)
    \/ /\ user_exists(us, emp_id)
       /\ LET stored == find_user(us, emp_id) IN
          \/ /\ Truthy(user_update.emp_id)
             /\ user_update.emp_id # emp_id
             /\ user_exists(us, user_update.emp_id)
          \/ /\ Truthy(user_update.emp_email)
             /\ \E e \in us \ {stored} : e.emp_email = user_update.emp_email
          \/ /\ Truthy(user_update.manager_id)
             /\ user_update.manager_id # stored.manager_id
             /\ validate_manager_hierarchy(us, user_update.manager_id,
                    Or(user_update.emp_designation, stored.emp_designation),
                    stored.emp_id) # "ok"

\* C16: a create_user or update_user request that fails a validation is
\* answered with an error and leaves the users table exactly as it was, and
\* so does every request that is answered with an error.
C16_RejectionKeepsStore ==
    /\ \A user \in UserCreates :
          LET got == create_user(users, user)
          IN /\ CreateFails(users, user) => got.status = 400
             /\ got.status # 201 => got.users = users
    /\ \A emp_id \in Ids \ {""} : \A user_update \in UserUpdates :
          LET got == update_user(users, emp_id, user_update)
          IN /\ UpdateFails(users, emp_id, user_update) => got.status \in {400, 404}
             /\ got.status # 200 => got.users = users

\* A table on which each kind of validation turns a request down: a taken
\* emp_email, a taken emp_id, a manager of insufficient rank and
\* self-management below rank 5.
C16_Witness ==
    /\ \E user \in UserCreates :
          create_user(users, user).detail = "User with emp_email already exists"
    /\ \E user \in UserCreates :
          create_user(users, user).detail = "InsufficientManagerRank"
    /\ \E emp_id \in Ids \ {""} : \E user_update \in UserUpdates :
          update_user(users, emp_id, user_update).detail = "InsufficientManagerRank"
    /\ \E emp_id \in Ids \ {""} : \E user_update \in UserUpdates :
          update_user(users, emp_id, user_update).detail = "SelfManagementNotAllowed"
    /\ \E emp_id \in Ids \ {""} : \E user_update \in UserUpdates :
          update_user(users, emp_id, user_update).detail = "New emp_id already exists"

\* C17: every task get_tasks returns to a caller is assigned inside
\* get_user_view_scope(caller), and for a target_root inside the caller's
\* scope get_user_view_scope(target_root) is a subset of the caller's scope.
C17_TargetNeverWidens ==
    \A current_user \in users : \A user_id \in TargetIds : \A ts \in TaskTables :
        LET scope == get_user_view_scope(users, current_user.emp_id)
            root == TargetRoot(current_user, user_id)
            got == get_tasks(users, ts, current_user, user_id)
        IN got.status = 200
           => /\ scope.returned
              /\ \A t \in got.data : t.task_assigned_to \in scope.scope
              /\ root \in scope.scope
                 => /\ get_user_view_scope(users, root).returned
                    /\ get_user_view_scope(users, root).scope \subseteq scope.scope

\* A caller lists a report that has a report of its own: the listing holds a
\* task of the report's report, and the caller's scope is strictly wider
\* than the target's.
C17_Witness ==
    \E current_user \in users : \E user_id \in Ids : \E ts \in TaskTables :
        LET scope == get_user_view_scope(users, current_user.emp_id)
            got == get_tasks(users, ts, current_user, user_id)
        IN /\ Truthy(user_id)
           /\ user_id # current_user.emp_id
           /\ got.status = 200
           /\ user_id \in scope.scope
           /\ \E t \in got.data :
                 /\ t.task_assigned_to # user_id
                 /\ t.task_assigned_to # current_user.emp_id
           /\ get_user_view_scope(users, user_id).scope # scope.scope

\* What the session handlers do on every reachable table: a login of a
\* stored employee hands out a token and stores nothing, verify_token
\* accepts no header, and logout answers no header with success.
SessionsNeverOpen ==
    /\ \A u \in users : login(users, u.emp_id, "tok") =
          [status |-> 200, message |-> "Login successful", token |-> "tok",
           users |-> users]
    /\ \A authorization \in Authorizations :
          /\ verify_token(users, authorization).status \in {401, 500}
          /\ logout(users, authorization).status \in {401, 500}
          /\ logout(users, authorization).users = users

====
